---- MODULE Spec2Model ----
(***************************************************************************)
(* Tiered context memory engine of GNX-CLI (src/src/memory): Hot tier,     *)
(* Warm tier with its vector index and archive file, Cold tier with its    *)
(* read cache and archive file, and the AdvancedMemoryOS orchestrator.     *)
(*                                                                         *)
(* Time is counted in whole hours since the epoch (time.time() / 3600),    *)
(* so the code's "(now - last_access) / 3600" is "clock - last_access".    *)
(* Floating point scores are kept as exact rationals <<num, den>>, den > 0.*)
(* Texts are tuples of one-character strings so that substring search and  *)
(* lower-casing can be computed.                                           *)
(***************************************************************************)
EXTENDS Integers, Sequences, FiniteSets, TLC

VARIABLES
    clock,        \* time.time(), in hours
    run,          \* number of the running process (1 for the first)
    provider,     \* EmbeddingManager.provider_name of this process
    idCounter,    \* WarmTier._id_counter
    warmItems,    \* WarmTier.index._items : sequence of cubes
    warmFile,     \* the Warm archive file
    coldCache,    \* ColdTier._cache : sequence of cubes
    coldFile,     \* the Cold archive file (archive.json)
    hotBuffer,    \* token sizes of the messages in the Hot buffer
    hotSummary,   \* ConversationSummaryBufferMemory.moving_summary_buffer
    lastSummary,  \* HotTier._last_summary
    delivered,    \* history: summaries consume_summary has returned in this process
    pc,           \* where the orchestrator operation under way stands, step by step
    opt,          \* the last TokenOptimizer.optimize call: its input and what it returned
    last          \* history: the last operation, its arguments and its result

vars == <<clock, run, provider, idCounter, warmItems, warmFile, coldCache, coldFile,
          hotBuffer, hotSummary, lastSummary, delivered, pc, opt, last>>

memVars == <<idCounter, warmItems, warmFile, coldCache, coldFile>>
hotVars == <<hotBuffer, hotSummary, lastSummary, delivered>>

----------------------------------------------------------------------------
\* Bounds of the model

\* WarmTier.add is called at most MaxCubes times per process
MaxCubes == 2
\* a search is taken only while the cubes it hits have access_count < MaxAccess
MaxAccess == 1
\* the clock starts StartClock hours after the epoch and runs MaxElapsed hours
StartClock == 100
MaxElapsed == 25
\* HotTier.max_token_limit as configured in the model
MaxTokenLimit == 2
\* at most MaxRuns processes run one after another
MaxRuns == 2
\* top_k / k arguments are drawn from 1..MaxK
MaxK == 2
\* the Warm index holds at most MaxWarm cubes, the Cold tier at most MaxCold
MaxWarm == 2
MaxCold == 2

\* elapsed hours between two observations of the clock
TickSteps == {25}

\* message sizes in tokens, as the LLM's tokenizer counts them
TokenSizes == {1, 2}

\* texts: contents, queries and summaries
TextA == <<"a">>
TextAb == <<"A", "b">>
TextS == <<"s">>
Contents == {TextA, TextAb}
Queries == {TextA, <<"b">>}
\* what the summarising LLM may answer (the empty text included)
Summaries == {<<>>, TextA, TextS}

Providers == {"mock", "gemini"}

----------------------------------------------------------------------------
\* MemoryTier (types.py)

HOT == 0
WARM == 1
COLD == 2

TierName(t) == CASE t = HOT -> "HOT" [] t = WARM -> "WARM" [] OTHER -> "COLD"
TierOfName(n) == CASE n = "HOT" -> HOT [] n = "WARM" -> WARM [] OTHER -> COLD
TierNames == {"HOT", "WARM", "COLD"}

None == "None"

\* Optional results: None is the empty tuple, a value x is <<x>>
NoneOpt == <<>>
Some(x) == <<x>>

----------------------------------------------------------------------------
\* Exact rationals <<num, den>> with den > 0, standing for the code's floats

RLess(a, b) == a[1] * b[2] < b[1] * a[2]
RLeq(a, b) == a[1] * b[2] <= b[1] * a[2]
REq(a, b) == a[1] * b[2] = b[1] * a[2]

RECURSIVE Gcd(_, _)
Gcd(a, b) == IF b = 0 THEN a ELSE Gcd(b, a % b)

Abs(x) == IF x < 0 THEN -x ELSE x

RNorm(a) ==
    LET g == Gcd(Abs(a[1]), a[2])
    IN  IF g = 0 THEN a ELSE <<a[1] \div g, a[2] \div g>>

RAdd(a, b) == RNorm(<<a[1] * b[2] + b[1] * a[2], a[2] * b[2]>>)
RMul(a, b) == RNorm(<<a[1] * b[1], a[2] * b[2]>>)
\* a / b for b > 0
RDiv(a, b) == RNorm(<<a[1] * b[2], a[2] * b[1]>>)

----------------------------------------------------------------------------
\* Small sequence helpers

RECURSIVE SumSeq(_)
SumSeq(s) == IF s = <<>> THEN 0 ELSE Head(s) + SumSeq(Tail(s))

\* del s[i]
DelAt(s, i) == SubSeq(s, 1, i - 1) \o SubSeq(s, i + 1, Len(s))

\* s[:k]
Take(s, k) == SubSeq(s, 1, IF k < Len(s) THEN k ELSE Len(s))

Range(s) == {s[i] : i \in DOMAIN s}

----------------------------------------------------------------------------
\* MemoryCube (types.py)

\* ids are f"mem_{int(time.time()*1000)}_{counter}".  The millisecond reading
\* is the pair <<process, hour>>: two processes never read the same
\* millisecond, the later process reads later values.
MakeId(process, now, counter) == <<process, now, counter>>
\* int(cube.id.split("_")[-1])
IdCounterOf(id) == id[3]

NewCube(id, content, now, embedding, source_summary, tags, source) ==
    [id |-> id, content |-> content, timestamp |-> now, embedding |-> embedding,
     tier |-> WARM, access_count |-> 0, last_access |-> 0,
     source_summary |-> source_summary, tags |-> tags, source |-> source]

\* update_access(): access_count += 1; last_access = time.time()
UpdateAccess(cube, now) ==
    [cube EXCEPT !.access_count = @ + 1, !.last_access = now]

HeatScoreNoDecay(cube, now) == <<cube.access_count, 1>>

\* heat_score(): access_count * (1 / (1 + hours since last access)), 0 if never accessed
HeatScore(cube, now) ==
    IF cube.access_count = 0 THEN <<0, 1>>
    ELSE <<cube.access_count, 1 + (now - cube.last_access)>>

ToDictNoTags(cube) ==
    [id |-> cube.id, content |-> cube.content, timestamp |-> cube.timestamp,
     embedding |-> cube.embedding, tier |-> TierName(cube.tier),
     access_count |-> cube.access_count, last_access |-> cube.last_access,
     source_summary |-> cube.source_summary, source |-> cube.source]

\* to_dict()
ToDict(cube) ==
    [id |-> cube.id, content |-> cube.content, timestamp |-> cube.timestamp,
     embedding |-> cube.embedding, tier |-> TierName(cube.tier),
     access_count |-> cube.access_count, last_access |-> cube.last_access,
     source_summary |-> cube.source_summary, tags |-> cube.tags,
     source |-> cube.source]

RequiredKeys == {"id", "content", "timestamp", "embedding", "tier"}

\* from_dict raises KeyError on a missing required key or an unknown tier name
FromDictRaises(d) ==
    \/ ~(RequiredKeys \subseteq DOMAIN d)
    \/ d.tier \notin TierNames

DictGet(d, key, default) == IF key \in DOMAIN d THEN d[key] ELSE default

FromDict(d) ==
    [id |-> d.id, content |-> d.content, timestamp |-> d.timestamp,
     embedding |-> d.embedding, tier |-> TierOfName(d.tier),
     access_count |-> DictGet(d, "access_count", 0),
     last_access |-> DictGet(d, "last_access", 0),
     source_summary |-> DictGet(d, "source_summary", FALSE),
     tags |-> DictGet(d, "tags", <<>>),
     source |-> DictGet(d, "source", None)]


----------------------------------------------------------------------------
\* Archive files.  A file is absent, holds a JSON list of records, or holds
\* bytes json.load cannot parse (an empty or cut-off file).

AbsentFile == [kind |-> "absent", data |-> <<>>]
GarbageFile == [kind |-> "garbage", data |-> <<>>]
JsonFile(dicts) == [kind |-> "json", data |-> dicts]

\* outcome of "with open(path, 'w') as f: json.dump(data, f)":
\*   ok        the file holds data
\*   unchanged open() raised, the file is as before
\*   truncated open() emptied the file and the dump raised before finishing
WriteOutcomes == {"ok", "unchanged", "truncated"}

WriteJson(file, cubes, outcome) ==
    CASE outcome = "ok" -> JsonFile([i \in DOMAIN cubes |-> ToDict(cubes[i])])
      [] outcome = "unchanged" -> file
      [] OTHER -> GarbageFile

----------------------------------------------------------------------------
\* Embedding providers (embeddings.py).  The provider is an external
\* capability: a deterministic table from text to a vector whose length is the
\* provider's dimension, all vectors of one provider having the same norm.

Embed(p, text) ==
    IF p = "mock"
    THEN CASE text = TextA -> <<1, 2>>
           [] text = TextAb -> <<2, 1>>
           [] text = TextS -> <<-1, 2>>
           [] OTHER -> <<2, -1>>
    ELSE CASE text = TextA -> <<0, 1, 2>>
           [] text = TextAb -> <<2, 1, 0>>
           [] text = TextS -> <<1, 0, 2>>
           [] OTHER -> <<0, 2, 1>>

----------------------------------------------------------------------------
\* Similarity math and VectorIndex (vector_search.py)

RECURSIVE Dot(_, _)
Dot(a, b) == IF a = <<>> THEN 0 ELSE Head(a) * Head(b) + Dot(Tail(a), Tail(b))

\* math.sqrt on the perfect squares the equal-norm vectors produce
ISqrt(n) == CHOOSE r \in 0..n : r * r <= n /\ (r + 1) * (r + 1) > n

\* cosine_similarity raises ValueError when the lengths differ
CosineRaises(a, b) == Len(a) # Len(b)

CosineSimilarity(a, b) ==
    LET na == Dot(a, a)
        nb == Dot(b, b)
    IN  IF na = 0 \/ nb = 0 THEN <<0, 1>>
        ELSE RNorm(<<Dot(a, b), ISqrt(na * nb)>>)

\* scored.sort(key=score, reverse=True): stable, descending.
\* Entries are <<position in _items, score>>.
RECURSIVE InsertDesc(_, _)
InsertDesc(x, t) ==
    IF t = <<>> THEN <<x>>
    ELSE IF RLeq(Head(t)[2], x[2]) THEN <<x>> \o t
         ELSE <<Head(t)>> \o InsertDesc(x, Tail(t))

RECURSIVE SortDesc(_)
SortDesc(s) == IF s = <<>> THEN <<>> ELSE InsertDesc(Head(s), SortDesc(Tail(s)))

\* VectorIndex.search / search_with_heat raise when some member's embedding
\* has another length than the query (an empty index returns [] first)
IndexSearchRaises(items, q) ==
    \E i \in DOMAIN items : CosineRaises(q, items[i].embedding)

\* threshold=None
NoThreshold == <<>>

IndexSearchUnsorted(items, q, k, threshold) ==
    LET scored == [i \in DOMAIN items |-> <<i, CosineSimilarity(q, items[i].embedding)>>]
        kept == SelectSeq(scored, LAMBDA e : threshold = NoThreshold \/ RLeq(threshold, e[2]))
    IN  Take(kept, k)

IndexSearchNoThreshold(items, q, k, threshold) ==
    LET scored == [i \in DOMAIN items |-> <<i, CosineSimilarity(q, items[i].embedding)>>]
    IN  Take(SortDesc(scored), k)

\* VectorIndex.search(query_vector, k, threshold); threshold NoThreshold or a rational
IndexSearch(items, q, k, threshold) ==
    LET scored == [i \in DOMAIN items |-> <<i, CosineSimilarity(q, items[i].embedding)>>]
        kept == SelectSeq(scored, LAMBDA e : threshold = NoThreshold \/ RLeq(threshold, e[2]))
    IN  Take(SortDesc(kept), k)

RECURSIVE MaxHeatOf(_, _)
MaxHeatOf(items, now) ==
    IF Len(items) = 1 THEN HeatScore(items[1], now)
    ELSE LET m == MaxHeatOf(Tail(items), now)
             h == HeatScore(Head(items), now)
         IN  IF RLess(h, m) THEN m ELSE h

\* VectorIndex.search_with_heat(query_vector, k, heat_weight), heat_weight a rational
IndexSearchWithHeat(items, q, k, heat_weight, now) ==
    IF items = <<>> THEN <<>>
    ELSE
    LET mh == MaxHeatOf(items, now)
        max_heat == IF mh[1] = 0 THEN <<1, 1>> ELSE mh
        Combined(c) ==
            RAdd(RMul(RAdd(<<1, 1>>, <<-heat_weight[1], heat_weight[2]>>),
                      CosineSimilarity(q, c.embedding)),
                 RMul(heat_weight, RDiv(HeatScore(c, now), max_heat)))
        scored == [i \in DOMAIN items |-> <<i, Combined(items[i])>>]
    IN  Take(SortDesc(scored), k)

\* VectorIndex.remove(cube_id): delete the first member with that id
IndexOfIdOrFirst(items, id) ==
    IF \E i \in DOMAIN items : items[i].id = id
    THEN CHOOSE i \in DOMAIN items :
             items[i].id = id /\ \A j \in 1..(i - 1) : items[j].id # id
    ELSE IF items = <<>> THEN 0 ELSE 1

\* position of the first cube with this id, 0 if there is none
IndexOfId(items, id) ==
    IF \E i \in DOMAIN items : items[i].id = id
    THEN CHOOSE i \in DOMAIN items :
             items[i].id = id /\ \A j \in 1..(i - 1) : items[j].id # id
    ELSE 0

IndexRemove(items, id) ==
    IF IndexOfId(items, id) = 0 THEN items ELSE DelAt(items, IndexOfId(items, id))

----------------------------------------------------------------------------
\* Text helpers for ColdTier.search: str.lower(), "in", str.count()

LowerChar(ch) == CASE ch = "A" -> "a" [] ch = "B" -> "b" [] ch = "S" -> "s" [] OTHER -> ch
Lower(text) == [i \in DOMAIN text |-> LowerChar(text[i])]

StartsAt(q, text, i) ==
    /\ i + Len(q) - 1 <= Len(text)
    /\ \A j \in 1..Len(q) : text[i + j - 1] = q[j]

\* q in text
Contains(q, text) == \E i \in 1..(Len(text) + 1) : StartsAt(q, text, i)

\* text.count(q): non-overlapping occurrences, scanning from the left
RECURSIVE CountFrom(_, _, _)
CountFrom(q, text, i) ==
    IF i > Len(text) + 1 THEN 0
    ELSE IF StartsAt(q, text, i)
         THEN 1 + (IF q = <<>> THEN CountFrom(q, text, i + 1)
                   ELSE CountFrom(q, text, i + Len(q)))
         ELSE CountFrom(q, text, i + 1)

Count(q, text) == CountFrom(q, text, 1)

----------------------------------------------------------------------------
\* Hot tier (hot_tier.py), constructed with an LLM: the buffer is LangChain's
\* ConversationSummaryBufferMemory.

\* save_context: append the two messages, then while the buffer is over the
\* token limit pop the oldest message
RECURSIVE PruneBuffer(_)
PruneBuffer(buf) ==
    IF SumSeq(buf) > MaxTokenLimit THEN PruneBuffer(Tail(buf)) ELSE buf

\* add_turn(user_input, ai_output); newSummary is what the LLM answers if the
\* buffer overflows and the popped messages are summarised
HotAddTurnBuffer(buf, user, ai) == PruneBuffer(buf \o <<user, ai>>)

HotAddTurnSummary(buf, summary, user, ai, newSummary) ==
    IF SumSeq(buf \o <<user, ai>>) > MaxTokenLimit THEN newSummary ELSE summary

\* has_new_summary(): current and current != self._last_summary
HasNewSummary(current, lastSeen) == current # <<>> /\ current # lastSeen

ConsumeSummaryResultLevel(current, lastSeen) ==
    IF current # <<>> THEN Some(current) ELSE NoneOpt

\* consume_summary(): the summary if new, else None
ConsumeSummaryResult(current, lastSeen) ==
    IF HasNewSummary(current, lastSeen) THEN Some(current) ELSE NoneOpt

ConsumeSummaryLast(current, lastSeen) ==
    IF HasNewSummary(current, lastSeen) THEN current ELSE lastSeen

----------------------------------------------------------------------------
\* Warm tier (warm_tier.py)

DefaultThreshold == <<1, 10>>
DefaultMaxAgeHours == 24
DefaultHeatWeight == <<3, 10>>

\* the cube WarmTier.add builds: _generate_id() increments the counter first
WarmAddCube(content, source_summary, tags, source) ==
    NewCube(MakeId(run, clock, idCounter + 1), content, clock,
            Embed(provider, content), source_summary, tags, source)

PruneColdEither(items, now, threshold, max_age_hours) ==
    LET cutoff_time == now - max_age_hours
    IN  SelectSeq(items, LAMBDA cube :
            RLess(HeatScore(cube, now), threshold) \/ cube.last_access < cutoff_time)

\* prune_cold(threshold, max_age_hours)
PruneCold(items, now, threshold, max_age_hours) ==
    LET cutoff_time == now - max_age_hours
    IN  SelectSeq(items, LAMBDA cube :
            RLess(HeatScore(cube, now), threshold) /\ cube.last_access < cutoff_time)

\* WarmTier.search raises when the index search raises
WarmSearchRaises(items, query) ==
    items # <<>> /\ IndexSearchRaises(items, Embed(provider, query))

\* positions of the cubes WarmTier.search returns, best first
WarmSearchHits(items, query, k, use_heat, heat_weight, now) ==
    LET results == IF use_heat
                   THEN IndexSearchWithHeat(items, Embed(provider, query), k, heat_weight, now)
                   ELSE IndexSearch(items, Embed(provider, query), k, NoThreshold)
    IN  [i \in DOMAIN results |-> results[i][1]]

WarmSearchItemsAll(items, hits, now) ==
    [i \in DOMAIN items |-> UpdateAccess(items[i], now)]

\* the index after the search: update_access() on every returned cube
WarmSearchItems(items, hits, now) ==
    [i \in DOMAIN items |->
        IF i \in Range(hits) THEN UpdateAccess(items[i], now) ELSE items[i]]

\* load(): <<items, id counter>> after loading the file into an empty tier.
\* Records are added one by one until one of them raises.
RECURSIVE WarmLoadFrom(_, _, _)
WarmLoadFrom(dicts, items, counter) ==
    IF dicts = <<>> \/ FromDictRaises(Head(dicts)) THEN <<items, counter>>
    ELSE LET cube == FromDict(Head(dicts))
             next == IF IdCounterOf(cube.id) + 1 > counter
                     THEN IdCounterOf(cube.id) + 1 ELSE counter
         IN  WarmLoadFrom(Tail(dicts), Append(items, cube), next)

WarmLoad(file) ==
    IF file.kind = "json" THEN WarmLoadFrom(file.data, <<>>, 0) ELSE <<<<>>, 0>>

\* remove(id) with its save(): <<items, file>>
WarmRemove(items, file, id, outcome) ==
    IF IndexOfId(items, id) = 0 THEN <<items, file>>
    ELSE <<IndexRemove(items, id), WriteJson(file, IndexRemove(items, id), outcome)>>

----------------------------------------------------------------------------
\* Cold tier (cold_tier.py)

\* _load_archive(): all records or, if the file is missing, unparseable or
\* holds a record from_dict rejects, nothing
LoadArchive(file) ==
    IF file.kind = "json" /\ \A i \in DOMAIN file.data : ~FromDictRaises(file.data[i])
    THEN [i \in DOMAIN file.data |-> FromDict(file.data[i])]
    ELSE <<>>

\* "if not self._cache: self._cache = self._load_archive()"
CacheOrLoad(cache, file) == IF cache = <<>> THEN LoadArchive(file) ELSE cache

\* get_all()
ColdGetAll == CacheOrLoad(coldCache, coldFile)
WarmGetAll == warmItems

\* mutant: save() forgets "mem.tier = MemoryTier.COLD"
ColdSaveListKeepsTier(file, memories) == LoadArchive(file) \o memories

\* save(memories): the list written and cached
ColdSaveList(file, memories) ==
    LoadArchive(file) \o [i \in DOMAIN memories |-> [memories[i] EXCEPT !.tier = COLD]]

\* remove(id): <<cache, file>>
ColdRemove(cache, file, id, outcome) ==
    LET c == CacheOrLoad(cache, file)
    IN  IF IndexOfId(c, id) = 0 THEN <<c, file>>
        ELSE <<IndexRemove(c, id), WriteJson(file, IndexRemove(c, id), outcome)>>

\* search(query, k): positions in the cache of the cubes that match
ColdMatches(cache, query) ==
    {i \in DOMAIN cache : Contains(Lower(query), Lower(cache[i].content))}

\* the cache after the search: update_access() on every match
ColdSearchCache(cache, query, now) ==
    [i \in DOMAIN cache |->
        IF i \in ColdMatches(cache, query) THEN UpdateAccess(cache[i], now) ELSE cache[i]]

----------------------------------------------------------------------------
\* Inputs

TagChoices == {<<"t">>}
SourceChoices == {None}
Thresholds == {DefaultThreshold, <<1, 50>>}
MaxAges == {DefaultMaxAgeHours, 2 * DefaultMaxAgeHours}
NoId == <<0, 0, 0>>

IdsOf(cubes) == {cubes[i].id : i \in DOMAIN cubes}
KnownIds == IdsOf(warmItems) \cup IdsOf(ColdGetAll) \cup {NoId}

\* an optimize call that has not run yet shows this result
NoResult ==
    [messages |-> <<>>, staged |-> <<>>, original_tokens |-> 0, optimized_tokens |-> 0,
     tokens_saved |-> 0, messages_pruned |-> 0, images_removed |-> 0,
     strategy_used |-> "NONE"]

\* the arguments of an optimize call that is about to run
PendingCall(messages, target_tokens, strat, min_messages_keep) ==
    [called |-> FALSE, input |-> messages, target_tokens |-> target_tokens,
     strategy |-> strat, min_messages_keep |-> min_messages_keep, out |-> NoResult]

\* no optimize call is under way
NoCall == PendingCall(<<>>, 0, "NONE", 0)

\* position inside an operation: the step to take next, the operation a
\* save() belongs to, the candidates still to remove, the cubes being
\* migrated, and the Warm file as it was when the save() began
At(step, then, remaining, moving, before) ==
    [step |-> step, then |-> then, remaining |-> remaining, moving |-> moving,
     before |-> before]

\* no operation is under way
Idle == At("idle", "", <<>>, <<>>, AbsentFile)

Op(name, r, a, v) == [op |-> name, raised |-> r, arg |-> a, ret |-> v]

----------------------------------------------------------------------------
\* State after construction: a fresh deployment, no archive files yet and no
\* API key in the environment (EmbeddingManager._auto_detect falls back to mock)

InitTiers ==
    /\ clock = StartClock
    /\ run = 1
    /\ provider = "mock"
    /\ idCounter = 0
    /\ warmItems = <<>>
    /\ warmFile = AbsentFile
    /\ coldCache = <<>>
    /\ coldFile = AbsentFile
    /\ hotBuffer = <<>>
    /\ hotSummary = <<>>
    /\ lastSummary = <<>>
    /\ delivered = {}
    /\ pc = Idle
    /\ last = Op("init", FALSE, <<>>, <<>>)

Init == InitTiers /\ opt = NoCall

\* time passes
Tick(d) ==
    /\ clock + d <= StartClock + MaxElapsed
    /\ clock' = clock + d
    /\ last' = Op("tick", FALSE, <<>>, <<>>)
    /\ UNCHANGED <<pc, opt, run, provider, memVars, hotVars>>

\* WarmTier.add, as AdvancedMemoryOS.add_memory calls it.  embedOk: the
\* provider answers; outcome: what the save() does to the file.
WarmAdd(content, source_summary, tags, source, outcome) ==
    /\ idCounter' = idCounter + 1
    /\ warmItems' = Append(warmItems, WarmAddCube(content, source_summary, tags, source))
    /\ warmFile' = WriteJson(warmFile, warmItems', outcome)

AddMemoryIdFirst(content, tags, source, outcome, embedOk) ==
    /\ idCounter < MaxCubes
    /\ Len(warmItems) < MaxWarm
    /\ IF embedOk
       THEN /\ WarmAdd(content, FALSE, tags, source, outcome)
            /\ last' = Op("add", FALSE, <<>>, Some(MakeId(run, clock, idCounter + 1)))
       ELSE /\ idCounter' = idCounter + 1
            /\ UNCHANGED <<warmItems, warmFile>>
            /\ last' = Op("add", TRUE, <<>>, NoneOpt)
    /\ UNCHANGED <<pc, opt, clock, run, provider, coldCache, coldFile, hotVars>>

\* AdvancedMemoryOS.add_memory(content, tags, source) = WarmTier.add
AddMemory(content, tags, source, outcome, embedOk) ==
    /\ idCounter < MaxCubes
    /\ Len(warmItems) < MaxWarm
    /\ IF embedOk
       THEN /\ WarmAdd(content, FALSE, tags, source, outcome)
            /\ last' = Op("add", FALSE, <<>>, Some(MakeId(run, clock, idCounter + 1)))
       ELSE /\ UNCHANGED <<idCounter, warmItems, warmFile>>
            /\ last' = Op("add", TRUE, <<>>, NoneOpt)
    /\ UNCHANGED <<pc, opt, clock, run, provider, coldCache, coldFile, hotVars>>

\* WarmTier.search(query, k, use_heat)
WarmSearch(query, k, use_heat, embedOk) ==
    LET hits == WarmSearchHits(warmItems, query, k, use_heat, DefaultHeatWeight, clock)
        raised == ~embedOk \/ WarmSearchRaises(warmItems, query)
    IN  /\ IF raised THEN TRUE
           ELSE \A i \in Range(hits) : warmItems[i].access_count < MaxAccess
        /\ warmItems' = IF raised THEN warmItems ELSE WarmSearchItems(warmItems, hits, clock)
        /\ last' = Op("search", raised, <<query, use_heat>>, IF raised THEN <<>> ELSE hits)
        /\ UNCHANGED <<pc, opt, clock, run, provider, idCounter, warmFile, coldCache, coldFile, hotVars>>

\* WarmTier.prune_cold(threshold, max_age_hours)
PruneColdCall(threshold, max_age_hours) ==
    /\ last' = Op("prune", FALSE, <<threshold, max_age_hours>>,
                  PruneCold(warmItems, clock, threshold, max_age_hours))
    /\ UNCHANGED <<pc, opt, clock, run, provider, memVars, hotVars>>

\* AdvancedMemoryOS.retrieve_context(query, top_k, include_hot, include_warm, include_cold)
RetrieveContext(query, k, include_warm, include_cold, embedOk) ==
    LET doWarm == include_warm /\ Len(warmItems) > 0
        hits == IF doWarm
                THEN WarmSearchHits(warmItems, query, k, TRUE, DefaultHeatWeight, clock)
                ELSE <<>>
        raised == doWarm /\ (~embedOk \/ WarmSearchRaises(warmItems, query))
        cache == CacheOrLoad(coldCache, coldFile)
    IN  /\ IF raised THEN TRUE
           ELSE \A i \in Range(hits) : warmItems[i].access_count < MaxAccess
        /\ IF raised \/ ~include_cold THEN TRUE
           ELSE \A i \in ColdMatches(cache, query) : cache[i].access_count < MaxAccess
        /\ warmItems' = IF raised THEN warmItems ELSE WarmSearchItems(warmItems, hits, clock)
        /\ coldCache' = IF raised \/ ~include_cold THEN coldCache
                        ELSE ColdSearchCache(cache, query, clock)
        /\ last' = Op("retrieve", raised, <<>>, IF raised THEN <<>> ELSE hits)
        /\ UNCHANGED <<pc, opt, clock, run, provider, idCounter, warmFile, coldFile, hotVars>>

\* the loop "for mem in candidates: self.warm.remove(mem.id)": <<items, file>>
RECURSIVE RemoveCandidates(_, _, _, _)
RemoveCandidates(items, file, candidates, outcomes) ==
    IF candidates = <<>> THEN <<items, file>>
    ELSE LET r == WarmRemove(items, file, Head(candidates).id, Head(outcomes))
         IN  RemoveCandidates(r[1], r[2], Tail(candidates), Tail(outcomes))

\* AdvancedMemoryOS.archive_cold_memories()
ArchiveColdMemories(outcomes, coldOutcome) ==
    LET candidates == PruneCold(warmItems, clock, DefaultThreshold, DefaultMaxAgeHours)
        removed == RemoveCandidates(warmItems, warmFile, candidates, outcomes)
        saved == ColdSaveList(coldFile, candidates)
    IN  /\ Len(outcomes) = Len(candidates)
        /\ Len(saved) <= MaxCold
        /\ IF candidates = <<>>
           THEN UNCHANGED <<warmItems, warmFile, coldCache, coldFile>>
           ELSE /\ warmItems' = removed[1]
                /\ warmFile' = removed[2]
                /\ coldFile' = WriteJson(coldFile, saved, coldOutcome)
                /\ coldCache' = saved
        /\ last' = Op("archive", FALSE, <<>>, [i \in DOMAIN candidates |-> candidates[i].id])
        /\ UNCHANGED <<pc, opt, clock, run, provider, idCounter, hotVars>>

\* AdvancedMemoryOS.rehydrate_memory(memory_id)
RehydrateMemory(id, outcome) ==
    LET cache == CacheOrLoad(coldCache, coldFile)
        i == IndexOfId(cache, id)
        cube == [cache[i] EXCEPT !.tier = WARM]
        removed == ColdRemove([cache EXCEPT ![i] = cube], coldFile, id, outcome)
    IN  /\ Len(warmItems) < MaxWarm
        /\ IF i = 0
           THEN /\ coldCache' = cache
                /\ UNCHANGED <<warmItems, coldFile>>
                /\ last' = Op("rehydrate", FALSE, id, NoneOpt)
           ELSE /\ warmItems' = Append(warmItems, cube)
                /\ coldCache' = removed[1]
                /\ coldFile' = removed[2]
                /\ last' = Op("rehydrate", FALSE, id, Some(id))
        /\ UNCHANGED <<pc, opt, clock, run, provider, idCounter, warmFile, hotVars>>

----------------------------------------------------------------------------
\* Hot tier operations and the per-turn entry point

\* HotTier.add_turn(user_input, ai_output)
HotAddTurn(user, ai, newSummary) ==
    /\ hotBuffer' = HotAddTurnBuffer(hotBuffer, user, ai)
    /\ hotSummary' = HotAddTurnSummary(hotBuffer, hotSummary, user, ai, newSummary)
    /\ last' = Op("add_turn", FALSE, <<>>, <<>>)
    /\ UNCHANGED <<pc, opt, clock, run, provider, memVars, lastSummary, delivered>>

\* HotTier.consume_summary()
ConsumeSummary ==
    LET res == ConsumeSummaryResult(hotSummary, lastSummary)
    IN  /\ lastSummary' = ConsumeSummaryLast(hotSummary, lastSummary)
        /\ delivered' = delivered \cup Range(res)
        /\ last' = Op("consume", FALSE, <<>>, res)
        /\ UNCHANGED <<pc, opt, clock, run, provider, memVars, hotBuffer, hotSummary>>

\* AdvancedMemoryOS.process_turn(user_input, ai_output): add_turn, then
\* _migrate_summaries()
ProcessTurn(user, ai, newSummary, outcome, embedOk) ==
    LET summary == HotAddTurnSummary(hotBuffer, hotSummary, user, ai, newSummary)
        res == ConsumeSummaryResult(summary, lastSummary)
    IN  /\ hotBuffer' = HotAddTurnBuffer(hotBuffer, user, ai)
        /\ hotSummary' = summary
        /\ lastSummary' = ConsumeSummaryLast(summary, lastSummary)
        /\ delivered' = delivered \cup Range(res)
        /\ IF res = NoneOpt \/ res = Some(<<>>)
           THEN /\ UNCHANGED <<idCounter, warmItems, warmFile>>
                /\ last' = Op("turn", FALSE, <<>>, res)
           ELSE /\ idCounter < MaxCubes
                /\ Len(warmItems) < MaxWarm
                /\ IF embedOk
                   THEN WarmAdd(res[1], TRUE, <<>>, "hot_tier_summary", outcome)
                   ELSE UNCHANGED <<idCounter, warmItems, warmFile>>
                /\ last' = Op("turn", ~embedOk, <<>>, res)
        /\ UNCHANGED <<pc, opt, clock, run, provider, coldCache, coldFile>>

\* the process ends and a new one constructs AdvancedMemoryOS on the same files
Restart(p) ==
    /\ run < MaxRuns
    /\ run' = run + 1
    /\ provider' = p
    /\ warmItems' = WarmLoad(warmFile)[1]
    /\ idCounter' = WarmLoad(warmFile)[2]
    /\ coldCache' = <<>>
    /\ hotBuffer' = <<>>
    /\ hotSummary' = <<>>
    /\ lastSummary' = <<>>
    /\ delivered' = {}
    /\ last' = Op("restart", FALSE, last.op, <<>>)
    /\ UNCHANGED <<pc, opt, clock, warmFile, coldFile>>

\* the running process constructs AdvancedMemoryOS again on the same files
\* (WarmTier.__init__ with auto_load), before its clock reading changes
Reload ==
    /\ warmItems' = WarmLoad(warmFile)[1]
    /\ idCounter' = WarmLoad(warmFile)[2]
    /\ coldCache' = <<>>
    /\ hotBuffer' = <<>>
    /\ hotSummary' = <<>>
    /\ lastSummary' = <<>>
    /\ delivered' = {}
    /\ last' = Op("reload", FALSE, last.op, <<>>)
    /\ UNCHANGED <<pc, opt, clock, run, provider, warmFile, coldFile>>

\* WarmTier.index.search(embed(query), k, threshold): the (position, score)
\* pairs returned; the index is only read
IndexSearchCall(query, k, threshold) ==
    LET q == Embed(provider, query)
        raised == warmItems # <<>> /\ IndexSearchRaises(warmItems, q)
    IN  /\ last' = Op("index_search", raised, <<query, k, threshold>>,
                      IF raised THEN <<>> ELSE IndexSearch(warmItems, q, k, threshold))
        /\ UNCHANGED <<pc, opt, clock, run, provider, memVars, hotVars>>

AllOk(n) == [i \in 1..n |-> "ok"]

\* one process, every write succeeding, the embedding provider possibly
\* failing a call: the operations of the Warm tier, the Cold tier and the
\* orchestrator
Next ==
    \/ \E d \in TickSteps : Tick(d)
    \/ \E c \in Contents, t \in TagChoices, s \in SourceChoices, e \in BOOLEAN :
           AddMemory(c, t, s, "ok", e)
    \/ \E q \in Queries, k \in 1..MaxK, h \in BOOLEAN, e \in BOOLEAN : WarmSearch(q, k, h, e)
    \/ \E th \in Thresholds, a \in MaxAges : PruneColdCall(th, a)
    \/ \E q \in Queries, k \in 1..MaxK, w \in BOOLEAN, c \in BOOLEAN, e \in BOOLEAN :
           RetrieveContext(q, k, w, c, e)
    \/ \E n \in 0..MaxWarm : ArchiveColdMemories(AllOk(n), "ok")
    \/ \E id \in KnownIds : RehydrateMemory(id, "ok")

Spec == Init /\ [][Next]_vars

\* minimum scores a caller of VectorIndex.search asks for
SearchThresholds == {NoThreshold, <<0, 1>>, <<4, 5>>, <<1, 1>>}

\* one process adding cubes and searching the vector index directly
NextIndex ==
    \/ \E d \in TickSteps : Tick(d)
    \/ \E c \in Contents, t \in TagChoices, s \in SourceChoices : AddMemory(c, t, s, "ok", TRUE)
    \/ \E q \in Queries, k \in 0..MaxK, th \in SearchThresholds : IndexSearchCall(q, k, th)

SpecIndex == Init /\ [][NextIndex]_vars

\* one process: the Hot tier and the per-turn entry point
NextHot ==
    \/ \E u \in TokenSizes, a \in TokenSizes, ns \in Summaries : HotAddTurn(u, a, ns)
    \/ ConsumeSummary
    \/ \E u \in TokenSizes, a \in TokenSizes, ns \in Summaries : ProcessTurn(u, a, ns, "ok", TRUE)

SpecHot == Init /\ [][NextHot]_vars

\* one process taking turns while the embedding provider may fail a call
NextHotFault ==
    \/ \E u \in TokenSizes, a \in TokenSizes, ns \in Summaries : HotAddTurn(u, a, ns)
    \/ \E u \in TokenSizes, a \in TokenSizes, ns \in Summaries, e \in BOOLEAN :
           ProcessTurn(u, a, ns, "ok", e)

SpecHotFault == Init /\ [][NextHotFault]_vars

\* one process in which the writes to the Cold archive file (a directory of
\* its own) may fail
NextFault ==
    \/ \E d \in TickSteps : Tick(d)
    \/ \E c \in Contents, t \in TagChoices, s \in SourceChoices : AddMemory(c, t, s, "ok", TRUE)
    \/ \E q \in Queries, k \in 1..MaxK, w \in BOOLEAN, c \in BOOLEAN :
           RetrieveContext(q, k, w, c, TRUE)
    \/ \E n \in 0..MaxWarm, o \in WriteOutcomes : ArchiveColdMemories(AllOk(n), o)
    \/ \E id \in KnownIds, o \in WriteOutcomes : RehydrateMemory(id, o)

SpecFault == Init /\ [][NextFault]_vars

\* processes one after another on the same archive files, the environment
\* possibly selecting another embedding provider for the next process
NextRestart ==
    \/ \E d \in TickSteps : Tick(d)
    \/ \E c \in Contents, t \in TagChoices, s \in SourceChoices : AddMemory(c, t, s, "ok", TRUE)
    \/ \E n \in 0..MaxWarm : ArchiveColdMemories(AllOk(n), "ok")
    \/ \E id \in KnownIds : RehydrateMemory(id, "ok")
    \/ \E p \in Providers : Restart(p)

SpecRestart == Init /\ [][NextRestart]_vars

\* one process that constructs the memory system several times on the same
\* files
NextReload ==
    \/ \E d \in TickSteps : Tick(d)
    \/ \E c \in Contents, t \in TagChoices, s \in SourceChoices : AddMemory(c, t, s, "ok", TRUE)
    \/ \E n \in 0..MaxWarm : ArchiveColdMemories(AllOk(n), "ok")
    \/ \E id \in KnownIds : RehydrateMemory(id, "ok")
    \/ Reload

SpecReload == Init /\ [][NextReload]_vars

\* the environment damages an archive file between two processes: the file is
\* cut off (unparseable), or one record loses its "id" key
DropId(d) == [key \in DOMAIN d \ {"id"} |-> d[key]]

Damaged(file, i) ==
    IF i = 0 THEN GarbageFile
    ELSE JsonFile([file.data EXCEPT ![i] = DropId(@)])

IsCorrupt(file) ==
    \/ file.kind = "garbage"
    \/ file.kind = "json" /\ \E i \in DOMAIN file.data : FromDictRaises(file.data[i])

CorruptWarmFile(i) ==
    /\ warmFile.kind = "json"
    /\ i \in {0} \cup DOMAIN warmFile.data
    /\ ~IsCorrupt(warmFile)
    /\ warmFile' = Damaged(warmFile, i)
    /\ last' = Op("corrupt", FALSE, <<>>, <<>>)
    /\ UNCHANGED <<pc, opt, clock, run, provider, idCounter, warmItems, coldCache, coldFile, hotVars>>

CorruptColdFile(i) ==
    /\ coldFile.kind = "json"
    /\ i \in {0} \cup DOMAIN coldFile.data
    /\ ~IsCorrupt(coldFile)
    /\ coldFile' = Damaged(coldFile, i)
    /\ last' = Op("corrupt", FALSE, <<>>, <<>>)
    /\ UNCHANGED <<pc, opt, clock, run, provider, idCounter, warmItems, warmFile, coldCache, hotVars>>

\* processes one after another on archive files the environment may damage
NextCorrupt ==
    \/ \E c \in Contents, t \in TagChoices, s \in SourceChoices : AddMemory(c, t, s, "ok", TRUE)
    \/ \E n \in 0..MaxWarm : ArchiveColdMemories(AllOk(n), "ok")
    \/ \E id \in KnownIds : RehydrateMemory(id, "ok")
    \/ \E i \in 0..MaxWarm : CorruptWarmFile(i)
    \/ \E i \in 0..MaxCold : CorruptColdFile(i)
    \/ Restart(provider)

SpecCorrupt == Init /\ [][NextCorrupt]_vars

----------------------------------------------------------------------------
\* The orchestrator's operations statement by statement: each action below is
\* one statement of add, save, archive_cold_memories or rehydrate_memory, so
\* that the states between two statements can be looked at.  Writes succeed.

\* WarmTier.add up to its save(): embed, _generate_id, index.add
AddIndexStep(content, tags, source) ==
    /\ pc = Idle
    /\ idCounter < MaxCubes
    /\ Len(warmItems) < MaxWarm
    /\ idCounter' = idCounter + 1
    /\ warmItems' = Append(warmItems, WarmAddCube(content, FALSE, tags, source))
    /\ pc' = At("save_open", "add", <<>>, <<>>, warmFile)
    /\ last' = Op("index_add", FALSE, <<>>, <<>>)
    /\ UNCHANGED <<opt, clock, run, provider, warmFile, coldCache, coldFile, hotVars>>

\* WarmTier.save(): open(self.storage_path, "w") creates or empties the file
SaveOpenStep ==
    /\ pc.step = "save_open"
    /\ warmFile' = GarbageFile
    /\ pc' = [pc EXCEPT !.step = "save_dump"]
    /\ last' = Op("open", FALSE, <<>>, <<>>)
    /\ UNCHANGED <<opt, clock, run, provider, idCounter, warmItems, coldCache, coldFile, hotVars>>

\* WarmTier.save(): json.dump writes the list and the file is closed; the
\* caller goes on
SaveDumpStep ==
    /\ pc.step = "save_dump"
    /\ warmFile' = WriteJson(warmFile, warmItems, "ok")
    /\ pc' = IF pc.then = "add" THEN Idle
             ELSE [pc EXCEPT !.step = IF pc.remaining = <<>> THEN "archive_save"
                                      ELSE "archive_remove"]
    /\ last' = IF pc.then = "add"
               THEN Op("add", FALSE, <<>>, Some(warmItems[Len(warmItems)].id))
               ELSE Op("dump", FALSE, <<>>, <<>>)
    /\ UNCHANGED <<opt, clock, run, provider, idCounter, warmItems, coldCache, coldFile, hotVars>>

\* archive_cold_memories(): candidates = self.warm.prune_cold()
ArchiveBeginStep ==
    LET candidates == PruneCold(warmItems, clock, DefaultThreshold, DefaultMaxAgeHours)
    IN  /\ pc = Idle
        /\ Len(ColdSaveList(coldFile, candidates)) <= MaxCold
        /\ pc' = IF candidates = <<>> THEN Idle
                 ELSE At("archive_remove", "archive", candidates, candidates, warmFile)
        /\ last' = IF candidates = <<>> THEN Op("archive", FALSE, <<>>, <<>>)
                   ELSE Op("prune_cold", FALSE, <<>>, <<>>)
        /\ UNCHANGED <<opt, clock, run, provider, memVars, hotVars>>

\* archive_cold_memories(): self.warm.remove(mem.id) up to its save()
ArchiveRemoveStep ==
    LET id == Head(pc.remaining).id
        found == IndexOfId(warmItems, id) # 0
        rest == Tail(pc.remaining)
    IN  /\ pc.step = "archive_remove"
        /\ warmItems' = IndexRemove(warmItems, id)
        /\ pc' = IF found
                 THEN [pc EXCEPT !.step = "save_open", !.remaining = rest, !.before = warmFile]
                 ELSE [pc EXCEPT !.step = IF rest = <<>> THEN "archive_save" ELSE "archive_remove",
                                 !.remaining = rest]
        /\ last' = Op("index_remove", FALSE, <<>>, <<>>)
        /\ UNCHANGED <<opt, clock, run, provider, idCounter, warmFile, coldCache, coldFile, hotVars>>

\* archive_cold_memories(): self.cold.save(candidates)
ArchiveSaveStep ==
    LET saved == ColdSaveList(coldFile, pc.moving)
    IN  /\ pc.step = "archive_save"
        /\ coldFile' = WriteJson(coldFile, saved, "ok")
        /\ coldCache' = saved
        /\ pc' = Idle
        /\ last' = Op("archive", FALSE, <<>>, [i \in DOMAIN pc.moving |-> pc.moving[i].id])
        /\ UNCHANGED <<opt, clock, run, provider, idCounter, warmItems, warmFile, hotVars>>

\* rehydrate_memory(id): cube = self.cold.rehydrate(memory_id)
RehydrateBeginStep(id) ==
    LET cache == CacheOrLoad(coldCache, coldFile)
        i == IndexOfId(cache, id)
    IN  /\ pc = Idle
        /\ Len(warmItems) < MaxWarm
        /\ coldCache' = cache
        /\ pc' = IF i = 0 THEN Idle ELSE At("rehydrate_add", "rehydrate", <<>>, <<cache[i]>>, warmFile)
        /\ last' = IF i = 0 THEN Op("rehydrate", FALSE, id, NoneOpt)
                   ELSE Op("cold_rehydrate", FALSE, id, <<>>)
        /\ UNCHANGED <<opt, clock, run, provider, idCounter, warmItems, warmFile, coldFile, hotVars>>

\* rehydrate_memory(id): cube.tier = WARM; self.warm.index.add(cube).  The
\* cube is the object the Cold cache holds.
RehydrateAddStep ==
    LET id == pc.moving[1].id
        cube == [pc.moving[1] EXCEPT !.tier = WARM]
    IN  /\ pc.step = "rehydrate_add"
        /\ coldCache' = [coldCache EXCEPT ![IndexOfId(coldCache, id)] = cube]
        /\ warmItems' = Append(warmItems, cube)
        /\ pc' = [pc EXCEPT !.step = "rehydrate_remove", !.moving = <<cube>>]
        /\ last' = Op("index_add", FALSE, <<>>, <<>>)
        /\ UNCHANGED <<opt, clock, run, provider, idCounter, warmFile, coldFile, hotVars>>

\* rehydrate_memory(id): self.cold.remove(memory_id); return cube
RehydrateRemoveStep ==
    LET id == pc.moving[1].id
        removed == ColdRemove(coldCache, coldFile, id, "ok")
    IN  /\ pc.step = "rehydrate_remove"
        /\ coldCache' = removed[1]
        /\ coldFile' = removed[2]
        /\ pc' = Idle
        /\ last' = Op("rehydrate", FALSE, id, Some(id))
        /\ UNCHANGED <<opt, clock, run, provider, idCounter, warmItems, warmFile, hotVars>>

\* the process is stopped wherever it stands and a new one constructs
\* AdvancedMemoryOS on the same files
StopAndRestart ==
    /\ run < MaxRuns
    /\ run' = run + 1
    /\ warmItems' = WarmLoad(warmFile)[1]
    /\ idCounter' = WarmLoad(warmFile)[2]
    /\ coldCache' = <<>>
    /\ hotBuffer' = <<>>
    /\ hotSummary' = <<>>
    /\ lastSummary' = <<>>
    /\ delivered' = {}
    /\ pc' = Idle
    /\ last' = Op("restart", FALSE, last.op, <<>>)
    /\ UNCHANGED <<opt, clock, provider, warmFile, coldFile>>

\* processes one after another, each running its operations one statement at
\* a time
NextSteps ==
    \/ pc = Idle /\ \E d \in TickSteps : Tick(d)
    \/ \E c \in Contents, t \in TagChoices, s \in SourceChoices : AddIndexStep(c, t, s)
    \/ SaveOpenStep
    \/ SaveDumpStep
    \/ ArchiveBeginStep
    \/ ArchiveRemoveStep
    \/ ArchiveSaveStep
    \/ \E id \in KnownIds : RehydrateBeginStep(id)
    \/ RehydrateAddStep
    \/ RehydrateRemoveStep
    \/ StopAndRestart

SpecSteps == Init /\ [][NextSteps]_vars

----------------------------------------------------------------------------
\* Token optimizer (src/token_optimizer, src/utils/token_counter.py)
\*
\* A text is known by its length in characters and by what the pipeline looks
\* at: how many characters whitespace normalisation removes (ws), the length
\* of the base64 data URL it holds (b64, 0 if none), whether it parses as
\* JSON and as what (json), the length of the summary summarize_tool_result
\* builds from that JSON (sumLen), and the prefix and suffix the duplicate
\* key is made of (body).

Chars(len, ws, b64, json, sumLen, body) ==
    [len |-> len, ws |-> ws, b64 |-> b64, json |-> json, sumLen |-> sumLen, body |-> body]

\* the part of a text the duplicate key sees; form tells a truncated text or
\* a summary from the text it was made of
Body(name, n) == [name |-> name, n |-> n, form |-> "as written"]

PlainText(len, body) == Chars(len, 0, 0, "no", 0, body)

\* content parts of a multimodal message
TextPart(text) == [type |-> "text", text |-> text, tokens |-> 0]
ImagePart(tokens) ==
    [type |-> "image_url", text |-> PlainText(0, Body("", 0)), tokens |-> tokens]

\* DEFAULT_IMAGE_TOKENS: an image given by a plain URL
DefaultImageTokens == 1000

\* "<image removed for token optimization>"
PlaceholderLen == 38
ImagePlaceholder == TextPart(PlainText(PlaceholderLen, Body("placeholder", 0)))

\* LangChain messages.  tool_calls: sequence of [id, nameLen, argsLen];
\* a ToolMessage carries the tool's name and the id of the call it answers.
\* ident tells the message objects of one conversation apart.  content is
\* the sequence of parts; a str content is a single text part with
\* multimodal FALSE.
SystemMessage(text) ==
    [type |-> "system", multimodal |-> FALSE, content |-> <<TextPart(text)>>,
     tool_calls |-> <<>>, nameLen |-> 0, tool_call_id |-> 0, ident |-> 0]
HumanMessage(text) ==
    [type |-> "human", multimodal |-> FALSE, content |-> <<TextPart(text)>>,
     tool_calls |-> <<>>, nameLen |-> 0, tool_call_id |-> 0, ident |-> 0]
HumanParts(parts) ==
    [type |-> "human", multimodal |-> TRUE, content |-> parts,
     tool_calls |-> <<>>, nameLen |-> 0, tool_call_id |-> 0, ident |-> 0]
AIMessage(text, tool_calls) ==
    [type |-> "ai", multimodal |-> FALSE, content |-> <<TextPart(text)>>,
     tool_calls |-> tool_calls, nameLen |-> 0, tool_call_id |-> 0, ident |-> 0]
ToolMessage(text, nameLen, tool_call_id) ==
    [type |-> "tool", multimodal |-> FALSE, content |-> <<TextPart(text)>>,
     tool_calls |-> <<>>, nameLen |-> nameLen, tool_call_id |-> tool_call_id,
     ident |-> 0]

\* message.content when it is a str
TextOf(m) == m.content[1].text

\* token_counter.py
MessageOverhead == 4

\* count_tokens_approximate: max(1, int(len(text) * 0.25)), 0 for ""
CountTokensApproximate(len) ==
    IF len = 0 THEN 0 ELSE IF len \div 4 < 1 THEN 1 ELSE len \div 4

PartTokens(part) ==
    IF part.type = "text" THEN CountTokensApproximate(part.text.len) ELSE part.tokens

RECURSIVE SumPartTokens(_)
SumPartTokens(parts) ==
    IF parts = <<>> THEN 0 ELSE PartTokens(Head(parts)) + SumPartTokens(Tail(parts))

CountContentTokens(m) ==
    IF m.multimodal THEN SumPartTokens(m.content)
    ELSE CountTokensApproximate(TextOf(m).len)

RECURSIVE CallTokens(_)
CallTokens(calls) ==
    IF calls = <<>> THEN 0
    ELSE CountTokensApproximate(Head(calls).nameLen)
         + CountTokensApproximate(Head(calls).argsLen)
         + CallTokens(Tail(calls))

CountMessageTokens(m) ==
    CountContentTokens(m) + MessageOverhead
    + (IF m.type = "tool" THEN CountTokensApproximate(m.nameLen) ELSE 0)
    + (IF m.type = "ai" THEN CallTokens(m.tool_calls) ELSE 0)

RECURSIVE CountMessagesTokens(_)
CountMessagesTokens(messages) ==
    IF messages = <<>> THEN 0
    ELSE CountMessageTokens(Head(messages)) + CountMessagesTokens(Tail(messages))

\* compressor.py
\* compress_whitespace(text)
CompressWhitespace(text) == [text EXCEPT !.len = text.len - text.ws, !.ws = 0]

\* "...[truncated]"
SuffixLen == 14

\* truncate_text(text, max_chars): text[:max_chars - len(suffix)] + suffix
TruncateText(text, max_chars) ==
    IF text.len <= max_chars THEN text
    ELSE LET cut == max_chars - SuffixLen
             kept == IF cut >= 0 THEN (IF cut < text.len THEN cut ELSE text.len)
                     ELSE (IF text.len + cut > 0 THEN text.len + cut ELSE 0)
         IN  Chars(kept + SuffixLen, 0, 0, "no", 0, [text.body EXCEPT !.form = "truncated"])

\* summarize_tool_result(result, max_chars)
SummarizeToolResult(text, max_chars) ==
    IF text.json \in {"screenshot", "files"}
    THEN Chars(text.sumLen, 0, 0, "summary", 0, [text.body EXCEPT !.form = "summary"])
    ELSE TruncateText(text, max_chars)

\* "<base64_data_removed>"
Base64MarkerLen == 21

\* remove_base64_from_text(text)[0]
RemoveBase64(text) ==
    IF text.b64 = 0 THEN text
    ELSE [text EXCEPT !.len = text.len - text.b64 + Base64MarkerLen, !.b64 = 0]

\* the dict optimize() hands to compress_messages
CompressConfig(config, strat) ==
    [compress_whitespace |-> config.compress_whitespace,
     max_tool_result_chars |-> config.max_tool_result_chars,
     summarize_tool_results |-> config.summarize_tool_results,
     remove_base64 |-> (strat = "AGGRESSIVE")]

CompressString(m, cc) ==
    LET c1 == IF cc.compress_whitespace THEN CompressWhitespace(TextOf(m)) ELSE TextOf(m)
        c2 == IF cc.remove_base64 THEN RemoveBase64(c1) ELSE c1
        c3 == IF m.type = "tool" /\ cc.max_tool_result_chars # 0
              THEN IF cc.summarize_tool_results
                   THEN SummarizeToolResult(c2, cc.max_tool_result_chars)
                   ELSE TruncateText(c2, cc.max_tool_result_chars)
              ELSE c2
    IN  c3

CompressPart(part, cc) ==
    IF part.type = "text" /\ cc.compress_whitespace
    THEN TextPart(CompressWhitespace(part.text))
    ELSE part

\* compress_message(message, config)
CompressMessage(m, cc) ==
    IF m.multimodal
    THEN [m EXCEPT !.content = [i \in DOMAIN m.content |-> CompressPart(m.content[i], cc)]]
    ELSE [m EXCEPT !.content = <<TextPart(CompressString(m, cc))>>]

\* compress_messages(messages, config)
CompressMessages(messages, cc) ==
    [i \in DOMAIN messages |-> CompressMessage(messages[i], cc)]

\* strategies.py: OptimizationConfig defaults
DefaultTargetTokens == 8000
DefaultMaxTokens == 12000
DefaultMinMessagesKeep == 4
DefaultMaxToolResultChars == 2000
DefaultMaxImages == 3
LightMaxToolResultChars == 5000
AggressiveMaxToolResultChars == 500
AggressiveMaxImages == 1

Strategies == {"NONE", "LIGHT", "AGGRESSIVE", "ADAPTIVE"}

OptimizationConfig(strategy, target_tokens, max_tool_result_chars, max_images, compress_whitespace, remove_duplicates, summarize_tool_results) ==
    [strategy |-> strategy, target_tokens |-> target_tokens,
     max_tokens |-> DefaultMaxTokens,
     min_messages_keep |-> DefaultMinMessagesKeep,
     max_tool_result_chars |-> max_tool_result_chars,
     max_images |-> max_images, strip_old_images |-> TRUE,
     compress_whitespace |-> compress_whitespace,
     remove_duplicates |-> remove_duplicates,
     summarize_tool_results |-> summarize_tool_results]

\* TokenOptimizer(OptimizationConfig(min_messages_keep=k)).config
ConfigWith(min_messages_keep) ==
    [OptimizationConfig("ADAPTIVE", DefaultTargetTokens, DefaultMaxToolResultChars,
                        DefaultMaxImages, TRUE, TRUE, TRUE)
       EXCEPT !.min_messages_keep = min_messages_keep]

\* OptimizationConfig.for_strategy(strategy): a fresh config for NONE, LIGHT
\* and AGGRESSIVE (fields not named there take the class defaults), self for
\* ADAPTIVE
ForStrategy(self, strategy) ==
    CASE strategy = "NONE" ->
           OptimizationConfig(strategy, self.max_tokens, DefaultMaxToolResultChars,
                              DefaultMaxImages, FALSE, FALSE, FALSE)
      [] strategy = "LIGHT" ->
           OptimizationConfig(strategy, self.max_tokens, LightMaxToolResultChars,
                              DefaultMaxImages, TRUE, TRUE, FALSE)
      [] strategy = "AGGRESSIVE" ->
           OptimizationConfig(strategy, self.target_tokens, AggressiveMaxToolResultChars,
                              AggressiveMaxImages, TRUE, TRUE, TRUE)
      [] OTHER -> self

\* pruner.py
\* identify_essential_messages(messages, keep_last): positions (from 1)
KeepLastDefault == 4

IdentifyEssentialMessages(messages, keep_last) ==
    LET n == Len(messages)
    IN  {i \in 1..n : messages[i].type = "system" \/ i > n - keep_last}
        \cup {i \in 1..n : messages[i].type = "ai" /\ messages[i].tool_calls # <<>>}
        \cup {j \in 1..n : \E i \in 1..n :
                /\ messages[i].type = "ai"
                /\ messages[i].tool_calls # <<>>
                /\ i < j
                /\ j <= i + Len(messages[i].tool_calls)
                /\ messages[j].type = "tool"}

\* the positions a set holds, in increasing order
RECURSIVE SortedSeq(_)
SortedSeq(S) ==
    IF S = {} THEN <<>>
    ELSE LET least == CHOOSE x \in S : \A y \in S : x <= y
         IN  <<least>> \o SortedSeq(S \ {least})

\* [msg for i, msg in enumerate(messages) if i not in remove_indices]
Without(messages, remove_indices) ==
    LET keep == SortedSeq(DOMAIN messages \ remove_indices)
    IN  [i \in DOMAIN keep |-> messages[keep[i]]]

\* the positions prune_oldest_messages(messages, target_count) removes
OldestRemoveIndices(messages, target_count) ==
    IF Len(messages) <= target_count THEN {}
    ELSE LET essential == IdentifyEssentialMessages(messages, KeepLastDefault)
             prunable == SortedSeq(DOMAIN messages \ essential)
             to_remove == Len(messages) - target_count
         IN  Range(Take(prunable, to_remove))

\* prune_oldest_messages(messages, target_count, preserve_essential=True)[0]
PruneOldestMessages(messages, target_count) ==
    Without(messages, OldestRemoveIndices(messages, target_count))

HasImage(m) ==
    m.type = "human" /\ m.multimodal /\ \E i \in DOMAIN m.content : m.content[i].type = "image_url"

\* image_indices[:-max_images]; a slice [:-0] is empty
ImageStripIndices(messages, max_images) ==
    LET image_indices == SortedSeq({i \in DOMAIN messages : HasImage(messages[i])})
    IN  IF Len(image_indices) <= max_images \/ max_images = 0 THEN {}
        ELSE Range(Take(image_indices, Len(image_indices) - max_images))

StripImages(m) ==
    HumanParts([i \in DOMAIN m.content |->
                  IF m.content[i].type = "image_url" THEN ImagePlaceholder
                  ELSE m.content[i]])

\* prune_images(messages, max_images)[0]
PruneImages(messages, max_images) ==
    [i \in DOMAIN messages |->
        IF i \in ImageStripIndices(messages, max_images)
        THEN [StripImages(messages[i]) EXCEPT !.ident = messages[i].ident]
        ELSE messages[i]]

CountImages(m) == Cardinality({i \in DOMAIN m.content : m.content[i].type = "image_url"})

\* prune_images(messages, max_images)[1]
RECURSIVE SumImages(_, _)
SumImages(messages, S) ==
    IF S = {} THEN 0
    ELSE LET i == CHOOSE x \in S : TRUE
         IN  CountImages(messages[i]) + SumImages(messages, S \ {i})

\* find_duplicate_content(messages): positions whose key (length, first 50,
\* last 50 characters) was seen at an earlier position; texts under 20
\* characters and multimodal contents are skipped
MinDuplicateLen == 20

DuplicateKeyed(m) == ~m.multimodal /\ TextOf(m).len >= MinDuplicateLen

FindDuplicateContent(messages) ==
    {j \in DOMAIN messages :
        /\ DuplicateKeyed(messages[j])
        /\ \E i \in 1..(j - 1) :
              /\ DuplicateKeyed(messages[i])
              /\ TextOf(messages[i]).len = TextOf(messages[j]).len
              /\ TextOf(messages[i]).body = TextOf(messages[j]).body}

\* prune_duplicates(messages)[0]
PruneDuplicates(messages) == Without(messages, FindDuplicateContent(messages))

\* optimizer.py
\* target_tokens=None is NoTarget: "target_tokens or self.config.target_tokens"
NoTarget == 0

OptimizationResult(messages, staged, original_tokens, messages_pruned, images_removed, strat) ==
    [messages |-> messages,
     staged |-> staged,
     original_tokens |-> original_tokens,
     optimized_tokens |-> CountMessagesTokens(messages),
     tokens_saved |-> original_tokens - CountMessagesTokens(messages),
     messages_pruned |-> messages_pruned,
     images_removed |-> images_removed,
     strategy_used |-> strat]

\* stage 4 of optimize(): the target message count handed to
\* prune_oldest_messages; int((current - target) / (current / n)) + 1 messages
\* are to go
TargetCount(optimized, target, config) ==
    LET current_tokens == CountMessagesTokens(optimized)
        n == Len(optimized)
        msgs_to_remove == ((current_tokens - target) * n) \div current_tokens + 1
    IN  IF config.min_messages_keep > n - msgs_to_remove
        THEN config.min_messages_keep ELSE n - msgs_to_remove

\* optimize() from "Apply optimizations" on: stages 1 to 4 under the
\* strategy's config; staged is the list stage 4 looks at
Pipeline(config, messages, target, strat) ==
    LET compressed == CompressMessages(messages, CompressConfig(config, strat))
        deduped == IF config.remove_duplicates THEN PruneDuplicates(compressed) ELSE compressed
        dups_removed == IF config.remove_duplicates
                        THEN Cardinality(FindDuplicateContent(compressed)) ELSE 0
        staged == IF config.strip_old_images THEN PruneImages(deduped, config.max_images)
                  ELSE deduped
        images_removed == IF config.strip_old_images
                          THEN SumImages(deduped, ImageStripIndices(deduped, config.max_images))
                          ELSE 0
        evict == CountMessagesTokens(staged) > target /\ strat \in {"AGGRESSIVE", "ADAPTIVE"}
        target_count == TargetCount(staged, target, config)
        final == IF evict THEN PruneOldestMessages(staged, target_count) ELSE staged
        pruned == IF evict THEN Cardinality(OldestRemoveIndices(staged, target_count)) ELSE 0
    IN  OptimizationResult(final, staged, CountMessagesTokens(messages),
                           dups_removed + pruned, images_removed, strat)

\* "target_tokens or self.config.target_tokens"
TargetOf(self_config, target_tokens) ==
    IF target_tokens # NoTarget THEN target_tokens ELSE self_config.target_tokens

OptimizeNoReturnAsIs(self_config, messages, target_tokens, strat) ==
    Pipeline(ForStrategy(self_config, strat), messages,
             TargetOf(self_config, target_tokens), strat)

\* TokenOptimizer(self_config).optimize(messages, target_tokens, strategy):
\* the returned messages and result
Optimize(self_config, messages, target_tokens, strat) ==
    LET target == TargetOf(self_config, target_tokens)
        original_tokens == CountMessagesTokens(messages)
    IN  IF (strat = "ADAPTIVE" /\ original_tokens <= target) \/ strat = "NONE"
        THEN OptimizationResult(messages, messages, original_tokens, 0, 0, strat)
        ELSE Pipeline(ForStrategy(self_config, strat), messages, target, strat)

\* The conversations optimize() is called on: up to MaxHead older messages
\* of any kind, followed by nothing, by four long turns or by four turns
\* with a picture each.
MaxHead == 2

SmallLen == 16
LongLen == 400
SystemLen == 40
DupLen == 48
DupSpaces == 8
ToolOutputLen == 6000
ToolNameLen == 4
ToolArgsLen == 8
ScreenshotLen == 22
ScreenshotSummaryLen == 57

ToolCall(id) == [id |-> id, nameLen |-> ToolNameLen, argsLen |-> ToolArgsLen]

MessageKinds ==
    {SystemMessage(PlainText(SystemLen, Body("sys", 0))),
     HumanMessage(PlainText(SmallLen, Body("hi", 0))),
     HumanMessage(Chars(DupLen, DupSpaces, 0, "no", 0, Body("again", 0))),
     HumanMessage(Chars(SmallLen, 0, SmallLen, "no", 0, Body("data url", 0))),
     AIMessage(PlainText(0, Body("", 0)), <<ToolCall(1)>>),
     ToolMessage(PlainText(ToolOutputLen, Body("output", 0)), ToolNameLen, 1),
     ToolMessage(Chars(ScreenshotLen, 0, 0, "screenshot", ScreenshotSummaryLen, Body("shot", 0)),
                 ToolNameLen, 1),
     HumanParts(<<TextPart(PlainText(SmallLen, Body("look", 0))), ImagePart(DefaultImageTokens)>>)}

LongTurns ==
    [i \in 1..4 |-> HumanMessage(PlainText(LongLen, Body("turn", i)))]

PictureTurns ==
    [i \in 1..4 |-> HumanParts(<<TextPart(PlainText(SmallLen, Body("picture", i))),
                                 ImagePart(DefaultImageTokens)>>)]

\* the same tool called twice, answering the same both times
ToolTurns ==
    <<AIMessage(PlainText(0, Body("", 0)), <<ToolCall(2)>>),
      ToolMessage(PlainText(ToolOutputLen, Body("output", 0)), ToolNameLen, 2),
      AIMessage(PlainText(0, Body("", 0)), <<ToolCall(3)>>),
      ToolMessage(PlainText(ToolOutputLen, Body("output", 0)), ToolNameLen, 3)>>

Tails == {<<>>, LongTurns, PictureTurns, ToolTurns}

Heads == UNION {[1..n -> MessageKinds] : n \in 0..MaxHead}

WithIdents(messages) == [i \in DOMAIN messages |-> [messages[i] EXCEPT !.ident = i]]

Conversations == {WithIdents(h \o t) : h \in Heads, t \in Tails}

Targets == {NoTarget, 100, 420}
MinKeeps == {DefaultMinMessagesKeep, DefaultMinMessagesKeep + 1}

\* TokenOptimizer(OptimizationConfig(min_messages_keep)).optimize(messages,
\* target_tokens, strategy) runs on the arguments drawn at the start
OptimizeCall ==
    /\ ~opt.called
    /\ opt' = [opt EXCEPT !.called = TRUE,
                          !.out = Optimize(ConfigWith(opt.min_messages_keep), opt.input,
                                           opt.target_tokens, opt.strategy)]
    /\ last' = Op("optimize", FALSE, <<>>, <<>>)
    /\ UNCHANGED <<pc, clock, run, provider, memVars, hotVars>>

\* the optimizer alone: one call of optimize() on any conversation with any
\* arguments
InitOpt ==
    /\ InitTiers
    /\ opt \in {PendingCall(m, t, s, k) :
                   m \in Conversations, t \in Targets, s \in Strategies, k \in MinKeeps}

NextOpt == OptimizeCall

\* prune_images is called with max_images in 0..MaxImagesArg
MaxImagesArg == 2

\* prune_images(messages, max_images) runs on the messages drawn at the start
PruneImagesCall(max_images) ==
    /\ ~opt.called
    /\ opt' = [opt EXCEPT !.called = TRUE,
                          !.out = OptimizationResult(
                                      PruneImages(opt.input, max_images), opt.input,
                                      CountMessagesTokens(opt.input), 0,
                                      SumImages(opt.input, ImageStripIndices(opt.input, max_images)),
                                      "NONE")]
    /\ last' = Op("prune_images", FALSE, max_images, <<>>)
    /\ UNCHANGED <<pc, clock, run, provider, memVars, hotVars>>

\* media pruning alone: one call of prune_images on any conversation
InitImages ==
    /\ InitTiers
    /\ opt \in {PendingCall(m, NoTarget, "NONE", DefaultMinMessagesKeep) : m \in Conversations}

NextImages == \E max_images \in 0..MaxImagesArg : PruneImagesCall(max_images)

SpecImages == InitImages /\ [][NextImages]_vars

SpecOpt == InitOpt /\ [][NextOpt]_vars

----------------------------------------------------------------------------
\* Claims

HasIdIn(cubes, id) == \E i \in DOMAIN cubes : cubes[i].id = id

\* C1: after archive_cold_memories() every cube it selected is absent from
\* Warm's get_all() and present in Cold's get_all() with tier COLD; after
\* rehydrate_memory(id) returned a cube, the cube is in Warm's get_all() with
\* tier WARM and absent from Cold's get_all().
C1_MigrationTransactional ==
    /\ last.op = "archive" =>
         \A id \in Range(last.ret) :
            /\ ~HasIdIn(WarmGetAll, id)
            /\ HasIdIn(ColdGetAll, id)
            /\ \A i \in DOMAIN ColdGetAll :
                  ColdGetAll[i].id = id => ColdGetAll[i].tier = COLD
    /\ (last.op = "rehydrate" /\ last.ret # NoneOpt) =>
         /\ HasIdIn(WarmGetAll, last.arg)
         /\ \A i \in DOMAIN WarmGetAll :
               WarmGetAll[i].id = last.arg => WarmGetAll[i].tier = WARM
         /\ ~HasIdIn(ColdGetAll, last.arg)

\* a cube was archived and rehydrated while another cube stayed in Cold
C1_Witness ==
    /\ last.op = "rehydrate"
    /\ last.ret # NoneOpt
    /\ Len(ColdGetAll) >= 1
    /\ Len(WarmGetAll) >= 1

\* C2: at every point between two orchestrator operations, whether or not a
\* write of an archive file failed, no cube id is returned by both Warm's
\* get_all() and Cold's get_all().
C2_NoCubeInTwoTiers ==
    IdsOf(WarmGetAll) \cap IdsOf(ColdGetAll) = {}

\* C7: when writes of the archive fail, a cube a tier holds stays in that
\* tier's get_all() across every later operation of the process, unless the
\* operation migrates it (archive selects it, rehydrate names it).
C7_AvailabilityKept ==
    [][ /\ \A id \in IdsOf(ColdGetAll) :
              \/ id \in IdsOf(ColdGetAll')
              \/ last'.op = "rehydrate" /\ last'.arg = id
        /\ \A id \in IdsOf(WarmGetAll) :
              \/ id \in IdsOf(WarmGetAll')
              \/ last'.op = "archive" /\ id \in Range(last'.ret)
      ]_vars

\* C3: over add_turn and consume_summary calls, consume_summary() never
\* returns a summary it has returned before; what it returns is the current
\* summary, non-empty and different from the last one consumed, and a second
\* call with no add_turn in between returns nothing.
C3_NeverRedelivers ==
    [][ last'.op = "consume" =>
          /\ last'.ret # NoneOpt =>
                /\ last'.ret[1] \notin delivered
                /\ last'.ret[1] # <<>>
                /\ last'.ret[1] = hotSummary
                /\ last'.ret[1] # lastSummary
          /\ last.op = "consume" => last'.ret = NoneOpt
      ]_vars

C5_PruneColdExact ==
    [][ last'.op = "prune" =>
          LET thr == last'.arg[1]
              age == last'.arg[2]
              cold(c) == /\ c.access_count * thr[2] < thr[1] * (1 + (clock - c.last_access))
                         /\ clock - c.last_access > age
              old == [NewCube(NoId, TextA, clock - 48, <<1, 2>>, FALSE, <<>>, None)
                        EXCEPT !.last_access = clock - 48]
              hot == [NewCube(NoId, TextA, clock, <<1, 2>>, FALSE, <<>>, None)
                        EXCEPT !.access_count = 10, !.last_access = clock]
          IN  /\ last'.ret = SelectSeq(warmItems, cold)
              /\ UNCHANGED <<warmItems, warmFile, idCounter, coldCache, coldFile>>
              /\ PruneCold(<<old, hot>>, clock, DefaultThreshold, DefaultMaxAgeHours) = <<old>>
      ]_vars

\* prune_cold returned one cube and left another that is old enough but
\* whose heat is not below the threshold
C5_Witness ==
    /\ last.op = "prune"
    /\ Len(last.ret) = 1
    /\ Len(warmItems) = 2
    /\ \E i \in DOMAIN warmItems :
          /\ clock - warmItems[i].last_access > last.arg[2]
          /\ warmItems[i] \notin Range(last.ret)

\* C6: WarmTier.search adds exactly 1 to access_count and sets last_access to
\* now on each cube it returns and touches no other cube; the new values are
\* the ones the index holds for the next search, heat score or prune_cold.
C6_SearchUpdatesAccess ==
    [][ (last'.op \in {"search", "retrieve"} /\ ~last'.raised) =>
          /\ Len(warmItems') = Len(warmItems)
          /\ \A i \in DOMAIN warmItems :
                IF i \in Range(last'.ret)
                THEN /\ warmItems'[i] = [warmItems[i] EXCEPT
                                           !.access_count = warmItems[i].access_count + 1,
                                           !.last_access = clock]
                     /\ HeatScore(warmItems'[i], clock') = <<warmItems[i].access_count + 1, 1>>
                     /\ warmItems'[i] \notin
                           Range(PruneCold(warmItems', clock', DefaultThreshold, DefaultMaxAgeHours))
                ELSE warmItems'[i] = warmItems[i]
      ]_vars

\* a search over two cubes returned one of them
C6_Witness ==
    /\ last.op = "search"
    /\ ~last.raised
    /\ Len(last.ret) = 1
    /\ Len(warmItems) = 2
    /\ \E i \in DOMAIN warmItems : warmItems[i].access_count = 0
    /\ warmItems[last.ret[1]].access_count = 1

\* C9: when the embedding provider fails in WarmTier.add or WarmTier.search
\* the call raises and the Warm index, the archive file, the id counter and
\* every cube's access counters are as before: no partial cube exists.
C9_EmbedFailureLeavesWarm ==
    [][ (last'.op \in {"add", "search", "retrieve"} /\ last'.raised) =>
          /\ warmItems' = warmItems
          /\ warmFile' = warmFile
          /\ idCounter' = idCounter
          /\ last'.ret = <<>>
      ]_vars

\* an add raised while the index held a cube, and the counter stands at the
\* number of cubes created
C9_Witness ==
    /\ last.op = "add"
    /\ last.raised
    /\ Len(warmItems) = 1
    /\ idCounter = 1

\* C8: loading a corrupt archive (an unparseable file, or a malformed record
\* at any position among valid ones) leaves the tier empty: after
\* WarmTier.load() on such a file the Warm index holds no cube, and the Cold
\* tier's load of such a file yields no cube.
C8_CorruptLoadsEmpty ==
    /\ (last.op = "restart" /\ IsCorrupt(warmFile)) => warmItems = <<>>
    /\ (last.op = "restart" /\ IsCorrupt(coldFile)) => ColdGetAll = <<>>

\* C10: every cube of the Warm index has an embedding of the same dimension,
\* whatever sequence of add, load and rehydrate_memory built the index.
C10_OneDimension ==
    \A i \in DOMAIN warmItems, j \in DOMAIN warmItems :
        Len(warmItems[i].embedding) = Len(warmItems[j].embedding)

ContentFields(cube) ==
    [id |-> cube.id, content |-> cube.content, embedding |-> cube.embedding,
     tags |-> cube.tags, source |-> cube.source]

\* C11: after WarmTier.save() (the last statement of add), a fresh Warm Tier
\* constructed on the same path holds the same cubes, in the same order, each
\* with identical id, content, embedding, tags and source.
C11_ArchiveRoundTrip ==
    [][ (last'.op = "restart" /\ last.op = "add" /\ ~last.raised) =>
          /\ Len(warmItems') = Len(warmItems)
          /\ \A i \in DOMAIN warmItems :
                ContentFields(warmItems'[i]) = ContentFields(warmItems[i])
      ]_vars

\* a fresh process loaded two cubes right after an add saved them
C11_Witness ==
    /\ last.op = "restart"
    /\ last.arg = "add"
    /\ Len(warmItems) = 2
    /\ warmItems[1].tags # <<>>

\* C12: cube ids are never reused: the cubes the tiers hold, created by
\* WarmTier.add before or after a reload of Warm from its file, carry
\* pairwise different ids, also when creations read the same clock value.
C12_IdsNeverReused ==
    LET all == WarmGetAll \o ColdGetAll
    IN  \A i \in DOMAIN all, j \in DOMAIN all : all[i].id = all[j].id => i = j

\* C13: rehydrate_memory(id) for an id that is not in Cold returns nothing,
\* raises nothing and leaves what Warm and Cold hold, and their files, as
\* they were.
C13_RehydrateUnknown ==
    [][ (last'.op = "rehydrate" /\ last'.arg \notin IdsOf(ColdGetAll)) =>
          /\ last'.ret = NoneOpt
          /\ ~last'.raised
          /\ WarmGetAll' = WarmGetAll
          /\ ColdGetAll' = ColdGetAll
          /\ warmFile' = warmFile
          /\ coldFile' = coldFile
      ]_vars

\* rehydrate was asked for a cube that lives in Warm while Cold held another
C13_Witness ==
    /\ last.op = "rehydrate"
    /\ last.ret = NoneOpt
    /\ last.arg \in IdsOf(WarmGetAll)
    /\ Len(ColdGetAll) >= 1

\* WarmTier.search(c, k, use_heat=False) runs right after WarmTier.add(c)
SearchAfterAdd ==
    /\ last.op = "add"
    /\ ~last.raised
    /\ last'.op = "search"
    /\ ~last'.raised
    /\ last'.arg[2] = FALSE
    /\ last'.arg[1] = warmItems[Len(warmItems)].content

\* C20 as stated: after WarmTier.add(c), WarmTier.search(c, k >= 1) without
\* heat weighting returns the cube that add created as its first result,
\* whatever other cubes the tier holds.
C20_AddedCubeFirst ==
    [][ SearchAfterAdd => last'.ret[1] = Len(warmItems) ]_vars

\* C20 amended: the first result of that search is a cube whose embedding has
\* similarity 1 with the query's; it is the cube the add created unless an
\* earlier cube of the index has the same embedding, which then comes first.
C20_ExactQueryTop ==
    [][ SearchAfterAdd =>
          LET top == last'.ret[1]
              new == Len(warmItems)
              q == Embed(provider, last'.arg[1])
          IN  /\ Len(last'.ret) >= 1
              /\ CosineSimilarity(q, warmItems[top].embedding) = <<1, 1>>
              /\ warmItems[top].embedding = warmItems[new].embedding
              /\ top = new <=>
                    \A j \in 1..(new - 1) : warmItems[j].embedding # warmItems[new].embedding
      ]_vars

\* the search for the content just added ran over two cubes of different
\* content and put the new one, second in the index, first
C20_Witness ==
    /\ last.op = "search"
    /\ ~last.raised
    /\ last.arg[2] = FALSE
    /\ Len(warmItems) = 2
    /\ last.arg[1] = warmItems[2].content
    /\ warmItems[1].content # warmItems[2].content
    /\ last.ret[1] = 2
    /\ warmItems[1].access_count = 0

\* the target optimize() works with in the call opt records
OptTarget == TargetOf(ConfigWith(opt.min_messages_keep), opt.target_tokens)

IdentsOf(messages) == {messages[i].ident : i \in DOMAIN messages}

\* C14: for every message list, target and strategy, optimize() reports
\* optimized_tokens <= original_tokens.
C14_NeverMoreTokens ==
    opt.called => opt.out.optimized_tokens <= opt.out.original_tokens

\* a message of the list, at position i, that eviction may take: not a
\* system message, not among the last keep messages, not an AI message with
\* tool calls and not the result of a call an earlier AI message of the list
\* made
Evictable(messages, i, keep) ==
    /\ messages[i].type # "system"
    /\ i <= Len(messages) - keep
    /\ ~(messages[i].type = "ai" /\ messages[i].tool_calls # <<>>)
    /\ ~(/\ messages[i].type = "tool"
         /\ \E j \in 1..(i - 1) :
               /\ messages[j].type = "ai"
               /\ \E c \in DOMAIN messages[j].tool_calls :
                     messages[j].tool_calls[c].id = messages[i].tool_call_id)

\* C15: optimize(messages, target_tokens=T, strategy=AGGRESSIVE) yields
\* optimized_tokens <= T, or else no message that is still evictable is left
\* in the output.
C15_TokenBudget ==
    (opt.called /\ opt.strategy = "AGGRESSIVE") =>
        \/ opt.out.optimized_tokens <= OptTarget
        \/ \A i \in DOMAIN opt.out.messages :
              ~Evictable(opt.out.messages, i, opt.min_messages_keep)

\* C16: for every message list and every configured min_messages_keep, the
\* eviction of oldest messages (from the list stage 4 looks at to the list
\* returned) removes no system message, none of the most recent
\* min_messages_keep messages and no member of a tool call / result pair.
C16_EvictionKeepsEssential ==
    opt.called =>
        \A i \in DOMAIN opt.out.staged :
            Evictable(opt.out.staged, i, opt.min_messages_keep)
            \/ opt.out.staged[i].ident \in IdentsOf(opt.out.messages)

\* C17: optimize(messages, strategy=NONE) returns the input unchanged with
\* optimized_tokens = original_tokens, messages_pruned = 0 and
\* images_removed = 0.
C17_NonePassThrough ==
    (opt.called /\ opt.strategy = "NONE") =>
        /\ opt.out.messages = opt.input
        /\ opt.out.original_tokens = CountMessagesTokens(opt.input)
        /\ opt.out.optimized_tokens = opt.out.original_tokens
        /\ opt.out.tokens_saved = 0
        /\ opt.out.messages_pruned = 0
        /\ opt.out.images_removed = 0

\* NONE was asked for a conversation over the target that holds a long tool
\* output, a data URL or more pictures than any strategy keeps
C17_Witness ==
    /\ opt.called
    /\ opt.strategy = "NONE"
    /\ opt.out.original_tokens > OptTarget
    /\ Len(opt.input) > DefaultMinMessagesKeep
    /\ \E i \in DOMAIN opt.input : opt.input[i].type = "tool"

\* C18: with ADAPTIVE, optimize() returns the input unchanged when its token
\* count is at or under the target, and otherwise the same messages and the
\* same counts as optimize() with AGGRESSIVE on the same input and target.
C18_AdaptiveAsAggressive ==
    (opt.called /\ opt.strategy = "ADAPTIVE") =>
        LET aggressive == Optimize(ConfigWith(opt.min_messages_keep), opt.input,
                                   opt.target_tokens, "AGGRESSIVE")
        IN  IF CountMessagesTokens(opt.input) <= OptTarget
            THEN /\ opt.out.messages = opt.input
                 /\ opt.out.messages_pruned = 0
                 /\ opt.out.images_removed = 0
            ELSE /\ opt.out.messages = aggressive.messages
                 /\ opt.out.messages_pruned = aggressive.messages_pruned
                 /\ opt.out.images_removed = aggressive.images_removed

\* C19: with LIGHT, optimize() only compresses and removes duplicates: no
\* tool result is truncated or summarized, no image is replaced by the
\* placeholder, and every message that is gone has the length and the
\* prefix and suffix of an earlier one.
C19_LightOnlyCompresses ==
    (opt.called /\ opt.strategy = "LIGHT") =>
        /\ opt.out.images_removed = 0
        /\ \A i \in DOMAIN opt.out.messages :
              LET m == opt.out.messages[i]
              IN  /\ \A p \in DOMAIN m.content : m.content[p] # ImagePlaceholder
                  /\ m.type = "tool" => TextOf(m).body.form = "as written"
        /\ \A j \in DOMAIN opt.input :
              \/ opt.input[j].ident \in IdentsOf(opt.out.messages)
              \/ \E i \in 1..(j - 1) :
                    /\ ~opt.input[i].multimodal
                    /\ ~opt.input[j].multimodal
                    /\ TextOf(opt.input[i]).body = TextOf(opt.input[j]).body
                    /\ TextOf(opt.input[i]).len - TextOf(opt.input[i]).ws
                          = TextOf(opt.input[j]).len - TextOf(opt.input[j]).ws

\* C21: heat_score() is 0 for a cube with access_count = 0, and for a fixed
\* access_count > 0 its value is access_count / (1 + hours since last_access),
\* strictly smaller the more hours have elapsed.
C21_HeatDecays ==
    \A cube \in Range(WarmGetAll) \cup Range(ColdGetAll) :
        \A h1 \in 0..MaxElapsed :
            LET heat1 == HeatScore(cube, cube.last_access + h1)
            IN  IF cube.access_count = 0
                THEN heat1[1] = 0
                ELSE /\ REq(heat1, <<cube.access_count, 1 + h1>>)
                     /\ \A h2 \in (h1 + 1)..MaxElapsed :
                           RLess(HeatScore(cube, cube.last_access + h2), heat1)

\* prune_cold has just read the heat of a cube that was retrieved some hours
\* ago, next to one that never was
C21_Witness ==
    /\ last.op = "prune"
    /\ \E cube \in Range(WarmGetAll) : cube.access_count > 0 /\ clock > cube.last_access
    /\ \E cube \in Range(WarmGetAll) : cube.access_count = 0

\* C26: a cube created by WarmTier.add and never retrieved is not returned
\* by prune_cold, and not moved to Cold by archive_cold_memories(), before
\* max_age_hours have elapsed since it was created.
C26_FreshCubeStays ==
    [][\A i \in DOMAIN warmItems :
          LET cube == warmItems[i]
              age == clock - cube.timestamp
          IN  cube.access_count = 0 =>
                  /\ (last'.op = "archive" /\ age < DefaultMaxAgeHours)
                         => cube.id \in IdsOf(warmItems')
                  /\ last'.op = "prune"
                         => (age < last'.arg[2] => cube.id \notin IdsOf(last'.ret))]_vars

\* C27: when all file writes succeed, after archive_cold_memories() or
\* rehydrate_memory(id) has returned, rebuilding Warm and Cold from their
\* archive files finds every migrated cube in exactly one tier, and the Warm
\* archive file lists exactly the cubes of the Warm index.
C27_MigrationsDurable ==
    last.op \in {"archive", "rehydrate"} =>
        LET warmLoaded == IdsOf(WarmLoad(warmFile)[1])
            coldLoaded == IdsOf(LoadArchive(coldFile))
        IN  /\ warmLoaded = IdsOf(warmItems)
            /\ \A id \in Range(last.ret) :
                  (id \in warmLoaded) # (id \in coldLoaded)

\* the cubes the two tiers return
LiveCubes == WarmGetAll \o ColdGetAll

AccessCountOf(cubes, id) == cubes[IndexOfId(cubes, id)].access_count

C25_TopKByScore ==
    last.op = "index_search" =>
        LET results == last.ret
            k == last.arg[2]
            threshold == last.arg[3]
            Score(i) == CosineSimilarity(Embed(provider, last.arg[1]), warmItems[i].embedding)
            returned == {results[j][1] : j \in DOMAIN results}
        IN  /\ ~last.raised
            /\ Len(results) <= k
            /\ Cardinality(returned) = Len(results)
            /\ \A j \in DOMAIN results :
                  /\ results[j][1] \in DOMAIN warmItems
                  /\ results[j][2] = Score(results[j][1])
                  /\ threshold # NoThreshold => RLeq(threshold, results[j][2])
                  /\ j > 1 => RLeq(results[j][2], results[j - 1][2])
                  /\ \A i \in DOMAIN warmItems \ returned : RLeq(Score(i), results[j][2])
            /\ warmItems = <<>> => results = <<>>

\* a search with a threshold on an index of two cubes kept one and left the
\* other out
C25_Witness ==
    /\ last.op = "index_search"
    /\ Len(warmItems) = 2
    /\ last.arg[3] # NoThreshold
    /\ last.arg[2] = 2
    /\ Len(last.ret) = 1

\* C28: no Hot summary is lost: when the embedding provider fails while
\* process_turn is migrating a new summary, that summary is still pending
\* afterwards (has_new_summary() holds, so a later process_turn delivers it).
C28_SummaryStillPending ==
    [][(last'.op = "turn" /\ last'.raised) =>
          /\ last'.ret = Some(hotSummary')
          /\ HasNewSummary(hotSummary', lastSummary')]_vars

\* positions of the messages of the list that carry an image part
ImageBearing(messages) == {i \in DOMAIN messages : HasImage(messages[i])}

\* C24: after prune_images(messages, max_images) with any max_images >= 0,
\* at most max_images messages still carry an image part and they are the
\* newest image-bearing messages; every older image part is replaced by the
\* placeholder; the number and order of the messages are unchanged.
C24_NewestImagesKept ==
    last.op = "prune_images" =>
        LET max_images == last.arg
            before == opt.input
            after == opt.out.messages
            kept == ImageBearing(after)
        IN  /\ Len(after) = Len(before)
            /\ \A i \in DOMAIN before : after[i].ident = before[i].ident
            /\ Cardinality(kept) <= max_images
            /\ kept \subseteq ImageBearing(before)
            /\ \A i \in kept : \A j \in ImageBearing(before) \ kept : j < i
            /\ \A i \in DOMAIN before : \A p \in DOMAIN before[i].content :
                  after[i].content[p] =
                      IF i \in ImageBearing(before) \ kept /\ before[i].content[p].type = "image_url"
                      THEN ImagePlaceholder
                      ELSE before[i].content[p]

\* the tool messages that answer a call of the AI message at position i: the
\* later ones with the id of one of its calls, up to the next AI message
\* that uses the id again
ResultsOf(messages, i) ==
    {j \in (i + 1)..Len(messages) :
        /\ messages[j].type = "tool"
        /\ \E c \in DOMAIN messages[i].tool_calls :
               /\ messages[i].tool_calls[c].id = messages[j].tool_call_id
               /\ \A k \in (i + 1)..(j - 1) :
                     \A d \in DOMAIN messages[k].tool_calls :
                         messages[k].tool_calls[d].id # messages[j].tool_call_id}

\* C29: across optimize(), with any strategy, a tool call is never split
\* from its result: an AI message carrying tool calls is in the output if
\* and only if each of its tool-result messages is.
C29_ToolPairsKept ==
    opt.called =>
        \A i \in DOMAIN opt.input :
            (opt.input[i].type = "ai" /\ opt.input[i].tool_calls # <<>>) =>
                \A j \in ResultsOf(opt.input, i) :
                    (opt.input[i].ident \in IdentsOf(opt.out.messages))
                        <=> (opt.input[j].ident \in IdentsOf(opt.out.messages))

\* C22: both migrations are ordered destination-first: at no step of
\* archive_cold_memories or of rehydrate_memory is a cube that is being
\* migrated in neither tier.
C22_DestinationFirst ==
    \A k \in DOMAIN pc.moving :
        pc.moving[k].id \in IdsOf(WarmGetAll) \cup IdsOf(ColdGetAll)

\* C23: WarmTier.save() overwrites the archive atomically: at every step of
\* the write the file holds either the complete previous contents or the
\* complete new contents.
C23_SaveAtomic ==
    pc.step \in {"save_open", "save_dump"} =>
        \/ warmFile = pc.before
        \/ warmFile = WriteJson(warmFile, warmItems, "ok")

====
